---- MODULE Spec2Model ----
(***************************************************************************)
(* Magnitude sparsity controller                                           *)
(* (nncf/torch/sparsity/magnitude/algo.py, MagnitudeSparsityController).   *)
(*                                                                         *)
(* Importance scores are non-negative reals in the program; the algorithm  *)
(* only sorts and compares them, so they are modelled by the naturals      *)
(* 0..MaxScore.  A sparsity level is a real; it is modelled by an exact    *)
(* fraction <<num, den>> with den > 0.                                     *)
(***************************************************************************)
EXTENDS Integers, Sequences, FiniteSets, TLC

\* ------------------------------------------------------------------ bounds
MaxScore == 2       \* importance scores range over 0..MaxScore
LevelDen == 4       \* callers pass the levels k/LevelDen

\* The shapes of the controllers explored: one entry per layer, the number
\* of elements of that layer's weight tensor.
Shapes == {<<>>, <<1>>, <<2>>, <<3>>, <<1, 1>>, <<1, 2>>}

\* ------------------------------------------------------------------ levels
Lvl(n, d) == <<n, d>>
Num(level) == level[1]
Den(level) == level[2]

\* levels inside [0,1) that callers pass
ValidLevels   == {Lvl(k, LevelDen) : k \in 0..(LevelDen - 1)}
\* levels outside [0,1): below zero, exactly one, above one
InvalidLevels == {Lvl(0 - 1, LevelDen), Lvl(LevelDen, LevelDen), Lvl(LevelDen + 1, LevelDen)}
Levels        == ValidLevels \cup InvalidLevels

\* the range check with > in place of >=: level 1 passes
OutOfRange_GreaterOnly(level) == Num(level) > Den(level) \/ Num(level) < 0

\* line 91: sparsity_level >= 1 or sparsity_level < 0
OutOfRange(level) == Num(level) >= Den(level) \/ Num(level) < 0

\* ------------------------------------------------------------------ tensors
\* three larger controllers: one layer [3,1,0,5,2,4]; two layers [1,5] and
\* [2,4]; two layers [0,1] and [2,3,4]
ScenarioScores == {<< <<3, 1, 0, 5, 2, 4>> >>, << <<1, 5>>, <<2, 4>> >>,
                   << <<0, 1>>, <<2, 3, 4>> >>}

ScoresOfShape(shape) ==
    {sc \in [1..Len(shape) -> UNION {[1..shape[l] -> 0..MaxScore] : l \in 1..Len(shape)}] :
        \A l \in 1..Len(shape) : Len(sc[l]) = shape[l]}

LayerLists == (UNION {ScoresOfShape(shape) : shape \in Shapes}) \cup ScenarioScores

None == 0

VARIABLES
    mode,            \* self._mode: "global" or "local"
    score,           \* per layer: self._weight_importance_fn(minfo.module.weight).view(-1)
    binary_mask,     \* per layer: layer.operand.binary_mask
    frozen,          \* per layer: layer.operand.frozen
    bn_adaptation,   \* self._bn_adaptation: None or the constructed routine
    last             \* the last operation performed, its arguments and its outcome

vars == <<mode, score, binary_mask, frozen, bn_adaptation, last>>

\* ------------------------------------------------------- pure functions
RECURSIVE Concat(_)
\* torch.cat of the flattened tensors of a list
Concat(tensors) ==
    IF tensors = <<>> THEN <<>>
    ELSE Head(tensors) \o Concat(Tail(tensors))

RECURSIVE Insert(_, _)
Insert(x, s) ==
    IF s = <<>> THEN <<x>>
    ELSE IF x <= Head(s) THEN <<x>> \o s
    ELSE <<Head(s)>> \o Insert(x, Tail(s))

RECURSIVE SortDesc(_)
\* the sort in descending order
SortDesc(s) ==
    IF s = <<>> THEN <<>>
    ELSE LET rest == SortDesc(Tail(s))
             above == SelectSeq(rest, LAMBDA y : y > Head(s))
             below == SelectSeq(rest, LAMBDA y : y <= Head(s))
         IN  above \o <<Head(s)>> \o below

RECURSIVE SortAsc(_)
\* tensor.sort(): ascending
SortAsc(s) == IF s = <<>> THEN <<>> ELSE Insert(Head(s), SortAsc(Tail(s)))

\* lines 119-123
_collect_all_weights(scores, target_list) ==
    [k \in 1..Len(target_list) |-> scores[target_list[k]]]

\* the index taken from the element count instead of the last index
RankIndex_FromCount(n, level) == (n * Num(level)) \div Den(level)

\* int((n - 1) * sparsity_level) for a level in [0,1): truncation of a
\* non-negative product, the product taken exactly
RankIndex(n, level) == ((n - 1) * Num(level)) \div Den(level)

\* the index read from the concatenation without sorting it
_select_threshold_Unsorted(scores, sparsity_level, target_list) ==
    LET all_weights == [k \in 1..Len(target_list) |-> scores[target_list[k]]]
    IN  IF all_weights = <<>> THEN 0
        ELSE LET all_weights_tensor == Concat(all_weights)
             IN  all_weights_tensor[(((Len(all_weights_tensor) - 1) * Num(sparsity_level))
                                        \div Den(sparsity_level)) + 1]

\* lines 104-110
_select_threshold(scores, sparsity_level, target_list) ==
    LET all_weights == _collect_all_weights(scores, target_list)
    IN  IF all_weights = <<>> THEN 0
        ELSE LET all_weights_tensor == SortAsc(Concat(all_weights))
             IN  all_weights_tensor[RankIndex(Len(all_weights_tensor), sparsity_level) + 1]

\* calc_magnitude_binary_mask(weight, importance_fn, threshold):
\* (importance_fn(weight) > threshold) as 0/1
calc_magnitude_binary_mask(layer_score, threshold_val) ==
    [i \in 1..Len(layer_score) |-> IF layer_score[i] > threshold_val THEN 1 ELSE 0]

InList(l, target_list) == \E k \in 1..Len(target_list) : target_list[k] = l

\* the new mask multiplied into the old one instead of replacing it
_set_masks_for_threshold_Accumulate(masks, scores, frz, threshold_val, target_list) ==
    [l \in 1..Len(masks) |->
        IF InList(l, target_list) /\ ~frz[l]
        THEN [i \in 1..Len(masks[l]) |->
                masks[l][i] * calc_magnitude_binary_mask(scores[l], threshold_val)[i]]
        ELSE masks[l]]

\* the loop without its frozen test
_set_masks_for_threshold_NoFrozenTest(masks, scores, frz, threshold_val, target_list) ==
    [l \in 1..Len(masks) |->
        IF InList(l, target_list)
        THEN calc_magnitude_binary_mask(scores[l], threshold_val)
        ELSE masks[l]]

\* lines 112-117: the masks after the loop
_set_masks_for_threshold(masks, scores, frz, threshold_val, target_list) ==
    [l \in 1..Len(masks) |->
        IF InList(l, target_list) /\ ~frz[l]
        THEN calc_magnitude_binary_mask(scores[l], threshold_val)
        ELSE masks[l]]

\* the target argument ignored
TargetList_AllLayers(n, target) == [l \in 1..n |-> l]

\* lines 94-97: target None is the whole of self.sparsified_module_info
TargetList(n, target) ==
    IF target = None THEN [l \in 1..n |-> l] ELSE <<target>>

\* What the external routine does when asked: its constructor raises, its
\* run() raises, or both return.
ExtOutcomes == {"ok", "ctor_raises", "run_raises"}

\* without the "is None" test: the routine is constructed at every call
_run_batchnorm_adaptation_Rebuild(bn, ext) ==
    IF ext = "ctor_raises" THEN <<bn, FALSE, "AdaptationError">>
    ELSE <<IF bn = 1 THEN 2 ELSE 1, TRUE, IF ext = "run_raises" THEN "AdaptationError" ELSE "ok">>

\* lines 135-138: <<self._bn_adaptation after the call, whether run() was
\* entered, the outcome>>
_run_batchnorm_adaptation(bn, ext) ==
    IF bn = None /\ ext = "ctor_raises" THEN <<None, FALSE, "AdaptationError">>
    ELSE LET obj == IF bn = None THEN 1 ELSE bn
         IN  <<obj, TRUE, IF ext = "run_raises" THEN "AdaptationError" ELSE "ok">>

\* the two global-mode tests in the other order
StageOf_TargetFirst(m, current, target) ==
    IF m = "local" THEN "FULLY_COMPRESSED"
    ELSE IF Num(current) * Den(target) >= Num(target) * Den(current) THEN "FULLY_COMPRESSED"
    ELSE IF Num(current) = 0 THEN "UNCOMPRESSED"
    ELSE "PARTIALLY_COMPRESSED"

\* lines 125-133: current / target are self.scheduler.current_sparsity_level
\* and self.scheduler.target_level, read only in global mode
StageOf(m, current, target) ==
    IF m = "local" THEN "FULLY_COMPRESSED"
    ELSE IF Num(current) = 0 THEN "UNCOMPRESSED"
    ELSE IF Num(current) * Den(target) >= Num(target) * Den(current) THEN "FULLY_COMPRESSED"
    ELSE "PARTIALLY_COMPRESSED"

\* ------------------------------------------------------------------ state
NoCall == [op |-> "none", level |-> Lvl(0, 1), target |-> None, run |-> FALSE,
           threshold |-> 0, ran |-> FALSE, outcome |-> "ok",
           target_level |-> Lvl(0, 1), ret |-> "none"]

\* BinaryMask(size): a mask of ones
AllOnes(scores) == [l \in 1..Len(scores) |-> [i \in 1..Len(scores[l]) |-> 1]]

\* lines 44-61: the controller after construction.  Operands start with a
\* mask of ones and frozen = False; the constructor ends with
\* set_sparsity_level(sparsity_init), which raises for a level outside [0,1).
Init ==
    /\ mode \in {"global", "local"}
    /\ score \in LayerLists
    /\ frozen = [l \in 1..Len(score) |-> FALSE]
    /\ bn_adaptation = None
    /\ \E sparsity_init \in ValidLevels :
        LET list == TargetList(Len(score), None)
            threshold == _select_threshold(score, sparsity_init, list)
        IN  /\ binary_mask = _set_masks_for_threshold(AllOnes(score), score, frozen, threshold, list)
            /\ last = [NoCall EXCEPT !.op = "init", !.level = sparsity_init,
                                     !.threshold = threshold]

\* lines 88-102
set_sparsity_level(sparsity_level, target, run_batchnorm_adaptation, ext) ==
    IF OutOfRange(sparsity_level)
    THEN \* the error carries the rejected level
         /\ last' = [NoCall EXCEPT !.op = "set", !.level = sparsity_level,
                                   !.outcome = "AttributeError"]
         /\ UNCHANGED <<mode, score, binary_mask, frozen, bn_adaptation>>
    ELSE LET list == TargetList(Len(score), target)
             threshold == _select_threshold(score, sparsity_level, list)
             bn == IF run_batchnorm_adaptation
                   THEN _run_batchnorm_adaptation(bn_adaptation, ext)
                   ELSE <<bn_adaptation, FALSE, "ok">>
         IN  /\ binary_mask' = _set_masks_for_threshold(binary_mask, score, frozen, threshold, list)
             /\ bn_adaptation' = bn[1]
             /\ last' = [NoCall EXCEPT !.op = "set", !.level = sparsity_level, !.target = target,
                                       !.run = run_batchnorm_adaptation, !.threshold = threshold,
                                       !.ran = bn[2], !.outcome = bn[3]]
             /\ UNCHANGED <<mode, score, frozen>>

SetSparsityLevel ==
    \E sparsity_level \in Levels, target \in 0..Len(score), run \in BOOLEAN :
        \E ext \in (IF run /\ ~OutOfRange(sparsity_level)
                    THEN (IF bn_adaptation = None THEN ExtOutcomes
                          ELSE ExtOutcomes \ {"ctor_raises"})
                    ELSE {"ok"}) :
            set_sparsity_level(sparsity_level, target, run, ext)

\* lines 84-86
freeze ==
    /\ frozen' = [l \in 1..Len(frozen) |-> TRUE]
    /\ last' = [NoCall EXCEPT !.op = "freeze"]
    /\ UNCHANGED <<mode, score, binary_mask, bn_adaptation>>

\* layer.operand.frozen = True on one operand
FreezeLayer ==
    \E l \in 1..Len(frozen) :
        /\ frozen' = [frozen EXCEPT ![l] = TRUE]
        /\ last' = [NoCall EXCEPT !.op = "freeze_layer", !.target = l]
        /\ UNCHANGED <<mode, score, binary_mask, bn_adaptation>>

\* lines 125-133; the scheduler's two values are read at the call, and only
\* in global mode (local mode has no scheduler)
compression_stage(current, target) ==
    /\ last' = [NoCall EXCEPT !.op = "stage", !.level = current, !.target_level = target,
                              !.ret = StageOf(mode, current, target)]
    /\ UNCHANGED <<mode, score, binary_mask, frozen, bn_adaptation>>

CompressionStage ==
    \E current \in (IF mode = "global" THEN ValidLevels ELSE {Lvl(0, 1)}),
       target \in (IF mode = "global" THEN ValidLevels ELSE {Lvl(0, 1)}) :
        compression_stage(current, target)

Next ==
    \/ SetSparsityLevel
    \/ freeze
    \/ FreezeLayer
    \/ CompressionStage

Spec == Init /\ [][Next]_vars

\* ------------------------------------------------- vocabulary of the claims
\* These definitions restate the documented behaviour on their own terms:
\* none of them uses the operators above that model the code.

Layers == 1..Len(score)
AllUnfrozen == \A l \in Layers : ~frozen[l]

\* 0 <= level < 1
InRange(level) == 0 <= Num(level) /\ Num(level) < Den(level)
LevelEq(a, b)  == Num(a) * Den(b) = Num(b) * Den(a)
LevelLeq(a, b) == Num(a) * Den(b) <= Num(b) * Den(a)
LevelLt(a, b)  == Num(a) * Den(b) < Num(b) * Den(a)

\* the working set of a call: every layer, or the target layer alone
WorkingSet(target) == IF target = None THEN Layers ELSE {target}

\* the elements of the layers of W, as <<layer, index>>
Positions(W) == UNION {{<<l, i>> : i \in 1..Len(score[l])} : l \in W}
ScoreAt(p) == score[p[1]][p[2]]
MaskAt(p)  == binary_mask[p[1]][p[2]]
PoolSize(W) == Cardinality(Positions(W))
CountBelow(W, v) == Cardinality({p \in Positions(W) : ScoreAt(p) < v})
CountUpTo(W, v)  == Cardinality({p \in Positions(W) : ScoreAt(p) <= v})
CountAbove(W, v) == Cardinality({p \in Positions(W) : ScoreAt(p) > v})
MaskedOut(W)     == Cardinality({p \in Positions(W) : MaskAt(p) = 0})
PairwiseDistinct(W) ==
    \A p \in Positions(W), q \in Positions(W) : p # q => ScoreAt(p) # ScoreAt(q)

\* floor((n - 1) * level)
FloorRank(n, level) ==
    CHOOSE r \in 0..n : /\ r * Den(level) <= (n - 1) * Num(level)
                        /\ (n - 1) * Num(level) < (r + 1) * Den(level)

\* the element at index floor((N-1)*level) of the ascending sort of the
\* pooled scores of W: fewer than index+1 elements lie below it, and at
\* least index+1 elements are at or below it
RankValue(W, level) ==
    LET k == FloorRank(PoolSize(W), level)
    IN  CHOOSE v \in {ScoreAt(p) : p \in Positions(W)} :
            CountBelow(W, v) <= k /\ k < CountUpTo(W, v)

\* mask[i] = 1 exactly when score[i] > t
KeepAbove(l, t) == [i \in 1..Len(score[l]) |-> IF score[l][i] > t THEN 1 ELSE 0]

\* round(p / q) for p >= 0, q > 0, halves to the even neighbour
Round(p, q) ==
    LET f == p \div q
        twice == 2 * (p % q)
    IN  IF twice < q THEN f
        ELSE IF twice > q THEN f + 1
        ELSE IF f % 2 = 0 THEN f ELSE f + 1

Abs(x) == IF x < 0 THEN 0 - x ELSE x

\* the state is the result of a set_sparsity_level call that passed the
\* range check (the constructor's call included)
Applied == last.op \in {"set", "init"} /\ last.outcome # "AttributeError"
AppliedBySet == last.op = "set" /\ last.outcome # "AttributeError"
Rejected == last.op = "set" /\ last.outcome = "AttributeError"

\* ------------------------------------------------------------------ claims

\* C1: a set_sparsity_level call with a level below 0 or at least 1 ends in
\* an error and changes no mask, no frozen flag and not the adaptation
\* routine; the next call with a level in [0,1) is accepted and writes the
\* masks of the unfrozen layers of its working set as usual.
C1_InvalidLevelRejected ==
    [][/\ (last'.op = "set" /\ ~InRange(last'.level))
            => /\ last'.outcome = "AttributeError"
               /\ binary_mask' = binary_mask
               /\ frozen' = frozen
               /\ bn_adaptation' = bn_adaptation
       /\ (Rejected /\ last'.op = "set" /\ InRange(last'.level))
            => /\ last'.outcome # "AttributeError"
               /\ \A l \in WorkingSet(last'.target) :
                    ~frozen[l] => binary_mask'[l] = KeepAbove(l, RankValue(WorkingSet(last'.target), last'.level))
      ]_vars

\* a call with level exactly 1 was rejected on a controller that holds a
\* constructed routine, a frozen layer and an unfrozen one
C1_Witness ==
    /\ Rejected
    /\ Num(last.level) = Den(last.level)
    /\ bn_adaptation # None
    /\ \E l \in Layers : frozen[l]
    /\ \E l \in Layers : ~frozen[l]

\* C2: a frozen flag is never cleared and a frozen layer's mask never
\* changes, whatever the operation; a set_sparsity_level call with a level in
\* [0,1) still gives every unfrozen layer of its working set the mask of the
\* threshold of that call.
C2_FrozenMaskKept ==
    [][/\ \A l \in Layers : frozen[l] => (frozen'[l] /\ binary_mask'[l] = binary_mask[l])
       /\ (last'.op = "set" /\ InRange(last'.level))
            => \A l \in WorkingSet(last'.target) :
                    ~frozen[l] => binary_mask'[l] = KeepAbove(l, last'.threshold)
      ]_vars

\* after a call over all layers, a frozen layer holds a mask other than the
\* one of the call's threshold while an unfrozen layer holds that mask
C2_Witness ==
    /\ AppliedBySet
    /\ last.target = None
    /\ \E l \in Layers : frozen[l] /\ binary_mask[l] # KeepAbove(l, last.threshold)
    /\ \E l \in Layers : ~frozen[l] /\ binary_mask[l] = KeepAbove(l, last.threshold)

\* C3: after a call with a level in [0,1) on a non-empty working set, every
\* unfrozen layer of the working set has mask[i] = 1 exactly when score[i] > t,
\* t being the element at index floor((N-1)*level) of the ascending sort of
\* the N pooled scores (frozen layers' scores included).  One layer
\* [3,1,0,5,2,4] at level 0.5 gives t = 2 and mask [1,0,0,1,0,1]; layers [1,5]
\* and [2,4] pooled at level 0.25 give t = 1 and masks [0,1] and [1,1].
C3_MaskByRankThreshold ==
    /\ (Applied /\ Positions(WorkingSet(last.target)) # {})
        => \A l \in WorkingSet(last.target) :
              ~frozen[l] =>
                 \A i \in 1..Len(score[l]) :
                    binary_mask[l][i] =
                        IF score[l][i] > RankValue(WorkingSet(last.target), last.level)
                        THEN 1 ELSE 0
    /\ (Applied /\ score = << <<3, 1, 0, 5, 2, 4>> >> /\ LevelEq(last.level, Lvl(1, 2))
           /\ AllUnfrozen)
        => (last.threshold = 2 /\ binary_mask = << <<1, 0, 0, 1, 0, 1>> >>)
    /\ (Applied /\ score = << <<1, 5>>, <<2, 4>> >> /\ LevelEq(last.level, Lvl(1, 4))
           /\ last.target = None /\ AllUnfrozen)
        => (last.threshold = 1 /\ binary_mask = << <<0, 1>>, <<1, 1>> >>)

\* the two-layer scenario, reached by a call after a different level
C3_Witness ==
    /\ AppliedBySet
    /\ score = << <<1, 5>>, <<2, 4>> >>
    /\ LevelEq(last.level, Lvl(1, 4))
    /\ last.target = None
    /\ AllUnfrozen
    /\ binary_mask = << <<0, 1>>, <<1, 1>> >>

\* C4 (as stated): in local mode, after set_sparsity_level(L) with a level in
\* [0,1) and no target layer on two or more unfrozen layers with pairwise
\* distinct scores, every layer's number of masked-out weights is within one
\* element of L times that layer's element count.
C4_LocalPerLayerRatio ==
    (/\ mode = "local"
     /\ AppliedBySet
     /\ last.target = None
     /\ Len(score) >= 2
     /\ AllUnfrozen
     /\ PairwiseDistinct(Layers))
        => \A l \in Layers :
              Abs(Den(last.level) * MaskedOut({l}) - Num(last.level) * Len(score[l]))
                  <= Den(last.level)

\* C5 (as stated): for every level in [0,1) and every non-empty layer set,
\* equal scores allowed, the number of pooled elements strictly above the
\* selected threshold is within one of round((1-level)*N).
C5_KeptCountNearRound ==
    (Applied /\ PoolSize(WorkingSet(last.target)) >= 1)
        => LET W == WorkingSet(last.target)
               N == PoolSize(W)
           IN  Abs(CountAbove(W, last.threshold)
                     - Round((Den(last.level) - Num(last.level)) * N, Den(last.level))) <= 1

\* C5 (amended): the number of pooled elements strictly above the selected
\* threshold is at most round((1-level)*N) + 1, and it is within one of
\* round((1-level)*N) when the pooled scores are pairwise distinct.
C5_KeptCountNearRoundNoTies ==
    (Applied /\ PoolSize(WorkingSet(last.target)) >= 1)
        => LET W == WorkingSet(last.target)
               N == PoolSize(W)
               kept == CountAbove(W, last.threshold)
               nominal == Round((Den(last.level) - Num(last.level)) * N, Den(last.level))
           IN  /\ kept <= nominal + 1
               /\ PairwiseDistinct(W) => Abs(kept - nominal) <= 1

\* a threshold selected among six pairwise distinct scores at level 0.5
C5_Witness ==
    /\ AppliedBySet
    /\ score = << <<3, 1, 0, 5, 2, 4>> >>
    /\ LevelEq(last.level, Lvl(1, 2))
    /\ last.threshold = 2

\* C6 (as stated): compression_stage returns FullyCompressed in local mode;
\* in global mode, for every pair (current, target) of the scheduler's
\* levels, Uncompressed when current is 0, FullyCompressed when
\* current >= target, PartiallyCompressed when 0 < current < target; the
\* call changes no state.
C6_StageByLevels ==
    [][last'.op = "stage"
          => LET current == last'.level
                 target == last'.target_level
             IN  /\ mode = "local" => last'.ret = "FULLY_COMPRESSED"
                 /\ (mode = "global" /\ Num(current) = 0) => last'.ret = "UNCOMPRESSED"
                 /\ (mode = "global" /\ LevelLeq(target, current))
                       => last'.ret = "FULLY_COMPRESSED"
                 /\ (mode = "global" /\ Num(current) > 0 /\ LevelLt(current, target))
                       => last'.ret = "PARTIALLY_COMPRESSED"
                 /\ UNCHANGED <<mode, score, binary_mask, frozen, bn_adaptation>>
      ]_vars

\* C6 (amended): as C6, with FullyCompressed in global mode when current is
\* not 0 and current >= target: a current level of 0 gives Uncompressed
\* whatever the target level, a target of 0 included.
C6_StageByLevelsZeroFirst ==
    [][last'.op = "stage"
          => LET current == last'.level
                 target == last'.target_level
             IN  /\ mode = "local" => last'.ret = "FULLY_COMPRESSED"
                 /\ (mode = "global" /\ Num(current) = 0) => last'.ret = "UNCOMPRESSED"
                 /\ (mode = "global" /\ Num(current) > 0 /\ LevelLeq(target, current))
                       => last'.ret = "FULLY_COMPRESSED"
                 /\ (mode = "global" /\ Num(current) > 0 /\ LevelLt(current, target))
                       => last'.ret = "PARTIALLY_COMPRESSED"
                 /\ UNCHANGED <<mode, score, binary_mask, frozen, bn_adaptation>>
      ]_vars

\* a global-mode controller with a frozen layer, a kept weight and the
\* routine constructed was asked its stage with current = target = 0
C6_Witness ==
    /\ last.op = "stage"
    /\ mode = "global"
    /\ Num(last.level) = 0
    /\ Num(last.target_level) = 0
    /\ last.ret = "UNCOMPRESSED"
    /\ bn_adaptation # None
    /\ \E l \in Layers : frozen[l]
    /\ \E l \in Layers : \E i \in 1..Len(score[l]) : binary_mask[l][i] = 1

\* C7: a call with a level in [0,1) and a target layer X takes its threshold
\* from the scores of X alone and leaves the mask and the frozen flag of
\* every other layer as they were, in either mode.
C7_TargetLayerOnly ==
    [][(last'.op = "set" /\ InRange(last'.level) /\ last'.target # None)
          => LET X == last'.target
             IN  /\ last'.threshold = RankValue({X}, last'.level)
                 /\ \A l \in Layers \ {X} : binary_mask'[l] = binary_mask[l]
                 /\ frozen' = frozen
      ]_vars

\* a call on a target layer whose own threshold is not the pooled one, next
\* to a layer whose mask is not the one that threshold would give it
C7_Witness ==
    /\ AppliedBySet
    /\ last.target # None
    /\ last.threshold # RankValue(Layers, last.level)
    /\ binary_mask[last.target] = KeepAbove(last.target, last.threshold)
    /\ \E l \in Layers \ {last.target} :
          ~frozen[l] /\ binary_mask[l] # KeepAbove(l, last.threshold)

\* C8: in a call with a level in [0,1) the adaptation routine is entered only
\* when run_adaptation is set; whatever the routine does, the unfrozen masks
\* of the working set are the ones of the call's threshold (a failure of the
\* routine or of its construction ends the call in that error and rolls
\* nothing back); the routine is constructed by the first call whose
\* construction succeeds and that object is kept by every later call.
C8_AdaptationAfterMasks ==
    [][(last'.op = "set" /\ InRange(last'.level))
          => /\ last'.ran => last'.run
             /\ ~last'.run => (bn_adaptation' = bn_adaptation /\ last'.outcome = "ok")
             /\ last'.outcome \in {"ok", "AdaptationError"}
             /\ (last'.run /\ last'.outcome = "ok") => (last'.ran /\ bn_adaptation' # None)
             /\ \A l \in WorkingSet(last'.target) :
                   ~frozen[l] => binary_mask'[l] = KeepAbove(l, last'.threshold)
             /\ bn_adaptation # None => bn_adaptation' = bn_adaptation
             /\ (bn_adaptation = None /\ last'.ran) => bn_adaptation' # None
             /\ (last'.run /\ ~last'.ran)
                   => (bn_adaptation = None /\ bn_adaptation' = None
                        /\ last'.outcome = "AdaptationError")
      ]_vars

\* a call whose routine was entered and failed, with the mask of the call's
\* threshold in place and some weight masked out by it
C8_Witness ==
    /\ AppliedBySet
    /\ last.run /\ last.ran
    /\ last.outcome = "AdaptationError"
    /\ bn_adaptation # None
    /\ Positions(WorkingSet(last.target)) # {}
    /\ \A l \in WorkingSet(last.target) : binary_mask[l] = KeepAbove(l, last.threshold)
    /\ Num(last.level) > 0

\* C9: with all layers unfrozen (the model never changes the weights), the
\* masks a call writes are a function of its level and working set alone, not
\* of the masks before it; a call repeating the level and working set of the
\* call before it changes no mask; of two consecutive calls over the same
\* working set, the one with the lower level has the lower or equal threshold
\* and keeps every weight the other keeps.
C9_MasksFromLevelAlone ==
    [][(last'.op = "set" /\ InRange(last'.level) /\ AllUnfrozen)
          => LET W == WorkingSet(last'.target)
             IN  /\ \A l \in W :
                       binary_mask'[l] = KeepAbove(l, RankValue(W, last'.level))
                 /\ (Applied /\ last.target = last'.target)
                       => /\ LevelEq(last.level, last'.level) => binary_mask' = binary_mask
                          /\ LevelLeq(last.level, last'.level)
                                => /\ last.threshold <= last'.threshold
                                   /\ \A l \in W : \A i \in 1..Len(score[l]) :
                                         binary_mask'[l][i] = 1 => binary_mask[l][i] = 1
                          /\ LevelLeq(last'.level, last.level)
                                => /\ last'.threshold <= last.threshold
                                   /\ \A l \in W : \A i \in 1..Len(score[l]) :
                                         binary_mask[l][i] = 1 => binary_mask'[l][i] = 1
      ]_vars

\* a call over two unfrozen layers at a level above 0 that keeps some weights
\* and drops others, every mask being the one of the call's level
C9_Witness ==
    /\ AppliedBySet
    /\ AllUnfrozen
    /\ last.target = None
    /\ Len(score) = 2
    /\ Num(last.level) > 0
    /\ \E p \in Positions(Layers) : MaskAt(p) = 1
    /\ \E l \in Layers : \E i \in 1..Len(score[l]) : binary_mask[l][i] = 0 /\ score[l][i] > 0
    /\ \A l \in Layers : binary_mask[l] = KeepAbove(l, RankValue(Layers, last.level))

\* C10: after a call with a level in [0,1), 0 included, on a non-empty working
\* set whose layers are all unfrozen, every element whose score equals the
\* selected rank value is masked out, so at least floor((N-1)*level)+1 of the
\* N pooled elements are, and the masks are never all ones; the constructor's
\* call with sparsity_init = 0 masks out the weights of minimum pooled score.
C10_SomeWeightDropped ==
    (/\ Applied
     /\ PoolSize(WorkingSet(last.target)) >= 1
     /\ \A l \in WorkingSet(last.target) : ~frozen[l])
        => LET W == WorkingSet(last.target)
           IN  /\ \A p \in Positions(W) :
                     ScoreAt(p) = RankValue(W, last.level) => MaskAt(p) = 0
               /\ MaskedOut(W) >= FloorRank(PoolSize(W), last.level) + 1
               /\ \E p \in Positions(W) : MaskAt(p) = 0
               /\ (last.op = "init" /\ Num(last.level) = 0)
                     => \A p \in Positions(W) :
                           (\A q \in Positions(W) : ScoreAt(p) <= ScoreAt(q)) => MaskAt(p) = 0

\* a controller of two layers just constructed with sparsity_init = 0: its
\* minimum-score weight is masked out, the others are kept
C10_Witness ==
    /\ last.op = "init"
    /\ Num(last.level) = 0
    /\ Len(score) = 2
    /\ MaskedOut(Layers) = 1
    /\ PoolSize(Layers) = 3

====
